---- MODULE Spec2Model ----
(***************************************************************************)
(* recognai/models.py: the SequenceClassifier model.                       *)
(*                                                                         *)
(* The state is one SequenceClassifier object (the fields its constructor  *)
(* sets, the CategoricalAccuracy accumulator it owns) and the record of    *)
(* the last call made on it (what was passed, what came back, which        *)
(* exception left it, and the calls it made, in order).                    *)
(*                                                                         *)
(* The embedder, the encoder and the linear layer are framework modules    *)
(* with learned parameters, which no method of this class changes: what    *)
(* they compute for the instances of the data is any tensor of the right   *)
(* shape, drawn once from Tensors(batch_size, num_classes).  Tensors are   *)
(* functions over 0-based indices, as in numpy and torch.                  *)
(***************************************************************************)
EXTENDS Integers, Sequences, FiniteSets, TLC

VARIABLES params, batch, self, last, seen

vars == <<params, batch, self, last, seen>>

\* ---------------------------------------------------------------- bounds
\* Largest logits tensor: batch_size * num_classes elements.
MaxElems == 4
\* Logits are drawn from 0..MaxLogit.
MaxLogit == 1
\* Largest get_output_dim / get_input_dim of the configured modules.
MaxDim == 2
\* Cap on the rows counted by the accuracy metric between two resets.
MaxCount == 3

\* ------------------------------------------------------- values and helpers
\* Python's None, where a string is expected (no exception raised).
None == "None"

\* label=None: a label tensor is never empty.
NoLabel == <<>>

Range(n) == 0 .. (n - 1)

EmptyDict == <<>>

\* A Python dict assignment d[k] = v.
SetItem(d, k, v) == (k :> v) @@ d

\* The tokens of the "labels" namespace, in the order a Vocabulary may index them.
LabelTokens == <<"negative", "positive", "neutral", "mixed", "other">>

Reversed(s) == [i \in 1 .. Len(s) |-> s[Len(s) + 1 - i]]

Vocabularies == { SubSeq(Reversed(LabelTokens), 1, n) : n \in 1 .. MaxElems }

\* Vocabulary.get_vocab_size("labels")
get_vocab_size(vocab) == Len(vocab)

\* Vocabulary.get_token_from_index(i, namespace="labels"): a dict lookup, which
\* raises KeyError for an index the namespace does not hold.
HasIndex(vocab, i) == i \in Range(Len(vocab))

get_token_from_index(vocab, i) == vocab[i + 1]

\* The sum of f[0] .. f[n - 1].
RECURSIVE SumTo(_, _)
SumTo(f, n) == IF n = 0 THEN 0 ELSE f[n - 1] + SumTo(f, n - 1)

\* Probabilities are kept as integers out of ProbScale.
ProbScale == 120

\* A batch of rows: shape (batch_size, num_classes).
Tensors(b, c) == [Range(b) -> [Range(c) -> 0 .. MaxLogit]]

BatchSize(data) == Cardinality(DOMAIN data)

RowLen(data) == Cardinality(DOMAIN data[0])

\* A torch.autograd.Variable (kind "Variable", on "cpu" or "cuda") or a
\* numpy.ndarray (kind "ndarray").
Variable(data, shape, device) ==
    [kind |-> "Variable", device |-> device, shape |-> shape, data |-> data]

\* Variable.data.cpu().numpy(): the same data and shape, as a host array.
numpy(v) == [kind |-> "ndarray", device |-> "cpu", shape |-> v.shape, data |-> v.data]

\* A dictionary value that is no tensor: a dict, a str, a float.
Plain(kind, data) == [kind |-> kind, device |-> "cpu", shape |-> <<>>, data |-> data]

\* F.softmax(logits): over the class axis of a 2-d input.  A row's weights are
\* 2 ^ logit, normalised to sum to ProbScale (rounded down).
SoftmaxRow(row) ==
    LET n == Cardinality(DOMAIN row)
        z == SumTo([c \in DOMAIN row |-> 2 ^ row[c]], n)
    IN  [c \in DOMAIN row |-> (ProbScale * (2 ^ row[c])) \div z]

softmax(logits) == [b \in DOMAIN logits |-> SoftmaxRow(logits[b])]

\* torch.nn.CrossEntropyLoss: the mean over the batch of the loss of each row's
\* gold class; the loss of a row falls as the probability of its gold class rises.
CrossEntropyLoss(logits, label) ==
    LET l == [b \in DOMAIN logits |-> ProbScale - SoftmaxRow(logits[b])[label[b]]]
    IN  SumTo(l, BatchSize(logits)) \div BatchSize(logits)

\* The index torch's topk(1) gives for a row: the first index of its maximum.
TopOne(row) ==
    CHOOSE i \in DOMAIN row :
        /\ \A j \in DOMAIN row : row[j] <= row[i]
        /\ \A j \in DOMAIN row : row[j] = row[i] => i <= j

\* numpy.argmax(a) with no axis: the first index of the maximum of the
\* flattened (row-major) array.
FlatAt(data, k) == data[k \div RowLen(data)][k % RowLen(data)]

argmax(data) ==
    LET n == BatchSize(data) * RowLen(data)
    IN  CHOOSE k \in Range(n) :
            /\ \A j \in Range(n) : FlatAt(data, j) <= FlatAt(data, k)
            /\ \A j \in Range(n) : FlatAt(data, j) = FlatAt(data, k) => k <= j

\* ---------------------------------------------------- CategoricalAccuracy
NewAccuracy == [correct_count |-> 0, total_count |-> 0]

\* CategoricalAccuracy.__call__(predictions, gold_labels)
AccuracyCall(acc, logits, label) ==
    [correct_count |-> acc.correct_count
                       + Cardinality({b \in DOMAIN logits : TopOne(logits[b]) = label[b]}),
     total_count   |-> acc.total_count + BatchSize(logits)]

\* The value CategoricalAccuracy.get_metric gives: correct over total, in percent.
AccuracyValue(acc) ==
    IF acc.total_count = 0 THEN 0 ELSE (100 * acc.correct_count) \div acc.total_count

\* The accumulator CategoricalAccuracy.get_metric(reset) leaves behind.
AccuracyAfter(acc, reset) == IF reset THEN NewAccuracy ELSE acc

\* ------------------------------------------------------------ constructor
\* No object yet: no attribute is set.
NoModel == [built |-> "no", attrs |-> {}, vocab |-> <<>>, num_classes |-> 0,
            accuracy |-> NewAccuracy, initialized |-> 0, calls |-> <<>>]

\* As SequenceClassifier_init, with the check made against the encoder's output
\* dimension instead of its input dimension.
SequenceClassifier_init_output_dim(p) ==
    LET m0 == [NoModel EXCEPT !.vocab = p.vocab,
                              !.num_classes = get_vocab_size(p.vocab),
                              !.attrs = {"vocab", "text_field_embedder", "num_classes",
                                         "encoder"},
                              !.calls = <<"Model.__init__", "get_vocab_size">>]
    IN  IF ~p.encoder.present
        THEN [m0 EXCEPT !.built = "AttributeError"]
        ELSE
        LET m1 == [m0 EXCEPT !.attrs = @ \cup {"projection_layer"},
                             !.calls = @ \o <<"get_output_dim", "Linear">>]
        IN  IF p.embedder_output_dim # p.encoder.output_dim
            THEN [m1 EXCEPT !.built = "ConfigurationError"]
            ELSE [m1 EXCEPT !.built = "ok",
                            !.attrs = @ \cup {"_accuracy", "_loss"},
                            !.initialized = @ + 1,
                            !.calls = @ \o <<"CategoricalAccuracy", "CrossEntropyLoss",
                                            "initializer">>]

\* SequenceClassifier.__init__
SequenceClassifier_init(p) ==
    LET m0 == [NoModel EXCEPT !.vocab = p.vocab,
                              !.num_classes = get_vocab_size(p.vocab),
                              !.attrs = {"vocab", "text_field_embedder", "num_classes",
                                         "encoder"},
                              !.calls = <<"Model.__init__", "get_vocab_size">>]
    IN  IF ~p.encoder.present
        THEN [m0 EXCEPT !.built = "AttributeError"]
        ELSE
        LET m1 == [m0 EXCEPT !.attrs = @ \cup {"projection_layer"},
                             !.calls = @ \o <<"get_output_dim", "Linear">>]
        IN  IF p.embedder_output_dim # p.encoder.input_dim
            THEN [m1 EXCEPT !.built = "ConfigurationError"]
            ELSE [m1 EXCEPT !.built = "ok",
                            !.attrs = @ \cup {"_accuracy", "_loss"},
                            !.initialized = @ + 1,
                            !.calls = @ \o <<"CategoricalAccuracy", "CrossEntropyLoss",
                                            "initializer">>]

\* ---------------------------------------------------------------- forward
\* What a call leaves behind: the dictionary returned (or reached when the
\* exception left), the exception, the accumulator, the calls made in order.
Result(out, raised, acc, calls) ==
    [out |-> out, raised |-> raised, acc |-> acc, calls |-> calls, fwd_calls |-> <<>>]

\* The module calls of forward up to the label test, in order.
ForwardSteps ==
    <<"text_field_embedder", "size", "get_text_field_mask", "encoder",
      "projection_layer", "softmax">>

\* The calls of the label branch of forward, in order.
LabelSteps == <<"_loss", "_accuracy">>

\* As forward, with the loss computed but not stored in the dictionary.
forward_loss_not_stored(m, logits, label, device) ==
    LET shape == <<BatchSize(logits), RowLen(logits)>>
        d0 == [logits              |-> Variable(logits, shape, device),
               class_probabilities |-> Variable(softmax(logits), shape, device)]
    IN  IF label # NoLabel
        THEN Result(d0, None, AccuracyCall(m.accuracy, logits, label),
                    ForwardSteps \o LabelSteps)
        ELSE Result(d0, None, m.accuracy, ForwardSteps)

\* As forward, with the accuracy updated before the loss is computed.
forward_accuracy_first(m, logits, label, device) ==
    LET shape == <<BatchSize(logits), RowLen(logits)>>
        d0 == [logits              |-> Variable(logits, shape, device),
               class_probabilities |-> Variable(softmax(logits), shape, device)]
    IN  IF label # NoLabel
        THEN Result(SetItem(d0, "loss",
                            Variable(CrossEntropyLoss(logits, label), <<1>>, device)),
                    None,
                    AccuracyCall(m.accuracy, logits, label),
                    ForwardSteps \o <<"_accuracy", "_loss">>)
        ELSE Result(d0, None, m.accuracy, ForwardSteps)

\* SequenceClassifier.forward(tokens, label): logits is what the embedder, the
\* encoder and the projection layer compute for tokens.
forward(m, logits, label, device) ==
    LET shape == <<BatchSize(logits), RowLen(logits)>>
        d0 == [logits              |-> Variable(logits, shape, device),
               class_probabilities |-> Variable(softmax(logits), shape, device)]
    IN  IF label # NoLabel
        THEN Result(SetItem(d0, "loss",
                            Variable(CrossEntropyLoss(logits, label), <<1>>, device)),
                    None,
                    AccuracyCall(m.accuracy, logits, label),
                    ForwardSteps \o LabelSteps)
        ELSE Result(d0, None, m.accuracy, ForwardSteps)

\* ----------------------------------------------------------------- decode
\* output_map_probs: the token of each index of the first row, with its value.
probabilities_by_class(m, row) ==
    [t \in {get_token_from_index(m.vocab, i) : i \in DOMAIN row} |->
        row[CHOOSE i \in DOMAIN row : get_token_from_index(m.vocab, i) = t]]

\* As decode, with the two entries put in a new dictionary.
decode_new_dict(m, output_dict) ==
    LET all_predictions == output_dict["class_probabilities"]
    IN  IF all_predictions.kind # "ndarray" /\ all_predictions.device = "cuda"
        THEN Result(output_dict, "RuntimeError", m.accuracy, <<"numpy">>)
        ELSE
        LET d1 == SetItem(EmptyDict, "probabilities_by_class",
                          Plain("dict",
                                probabilities_by_class(m, all_predictions.data[0])))
            calls == <<"get_token_from_index", "argmax", "get_token_from_index">>
        IN  CHOOSE r \in
              { IF ~HasIndex(m.vocab, argmax_i)
                THEN Result(d1, "KeyError", m.accuracy, calls)
                ELSE Result(SetItem(d1, "max_label",
                                    Plain("str", get_token_from_index(m.vocab, argmax_i))),
                            None, m.accuracy, calls)
                : argmax_i \in {argmax(all_predictions.data)} } : TRUE

\* SequenceClassifier.decode(output_dict): the dictionary is changed in place,
\* so an exception leaves it as far as decode got.  .data.numpy() is refused
\* for a tensor on the GPU.
decode(m, output_dict) ==
    LET all_predictions == output_dict["class_probabilities"]
    IN  IF all_predictions.kind # "ndarray" /\ all_predictions.device = "cuda"
        THEN Result(output_dict, "RuntimeError", m.accuracy, <<"numpy">>)
        ELSE IF \E i \in DOMAIN all_predictions.data[0] : ~HasIndex(m.vocab, i)
        THEN Result(output_dict, "KeyError", m.accuracy, <<"get_token_from_index">>)
        ELSE
        LET d1 == SetItem(output_dict, "probabilities_by_class",
                          Plain("dict",
                                probabilities_by_class(m, all_predictions.data[0])))
            calls == <<"get_token_from_index", "argmax", "get_token_from_index">>
        IN  CHOOSE r \in
              { IF ~HasIndex(m.vocab, argmax_i)
                THEN Result(d1, "KeyError", m.accuracy, calls)
                ELSE Result(SetItem(d1, "max_label",
                                    Plain("str", get_token_from_index(m.vocab, argmax_i))),
                            None, m.accuracy, calls)
                : argmax_i \in {argmax(all_predictions.data)} } : TRUE

\* ---------------------------------------------------- forward_on_instance
\* The loop over outputs.items(): a Variable becomes a numpy array, any other
\* value is kept.
ToNumpy(outputs) ==
    [name \in DOMAIN outputs |->
        IF outputs[name].kind = "Variable" THEN numpy(outputs[name]) ELSE outputs[name]]

\* The calls of forward_on_instance, in order.
InstanceSteps ==
    <<"index_fields", "as_array_dict", "arrays_to_variables", "forward", "decode">>

\* The rest of forward_on_instance, given what forward returned (f) and what
\* decode made of it (d).
InstanceOutputs(f, d) ==
    [Result(IF d.raised # None THEN d.out ELSE ToNumpy(d.out),
            d.raised, f.acc, InstanceSteps)
     EXCEPT !.fwd_calls = f.calls]

\* As forward_on_instance, without the call of decode (as Model.forward_on_instance,
\* which this method overrides).
forward_on_instance_no_decode(m, logits, label, cuda_device) ==
    CHOOSE r \in
      { [Result(ToNumpy(f.out), None, f.acc,
                <<"index_fields", "as_array_dict", "arrays_to_variables", "forward">>)
         EXCEPT !.fwd_calls = f.calls] :
        f \in {forward(m, logits, label, IF cuda_device >= 0 THEN "cuda" ELSE "cpu")} }
      : TRUE

\* SequenceClassifier.forward_on_instance(instance, cuda_device): logits is what
\* the modules compute for the instance's tokens with the batch dimension added.
\* (f and d are bound through singleton sets: each call is evaluated once.)
forward_on_instance(m, logits, label, cuda_device) ==
    CHOOSE r \in
      UNION { { InstanceOutputs(f, d) :
                d \in {decode([m EXCEPT !.accuracy = f.acc], f.out)} } :
              f \in {forward(m, logits, label, IF cuda_device >= 0 THEN "cuda" ELSE "cpu")} }
      : TRUE

\* ------------------------------------------------------------ get_metrics
\* As get_metrics, with reset not passed on to get_metric.
get_metrics_reset_dropped(m, reset) ==
    Result([accuracy |-> Plain("float", AccuracyValue(m.accuracy))],
           None,
           AccuracyAfter(m.accuracy, FALSE),
           <<"get_metric">>)

\* SequenceClassifier.get_metrics(reset)
get_metrics(m, reset) ==
    Result([accuracy |-> Plain("float", AccuracyValue(m.accuracy))],
           None,
           AccuracyAfter(m.accuracy, reset),
           <<"get_metric">>)

\* ------------------------------------------------------------------ state
\* What the configuration gives the constructor.
Encoders ==
    {[present |-> FALSE, input_dim |-> 0, output_dim |-> 0]}
    \cup {[present |-> TRUE, input_dim |-> i, output_dim |-> MaxDim] : i \in 1 .. MaxDim}

\* The instances of the data, as the modules see them: the logits the modules
\* compute for each, and its gold label.
Batches(c) ==
    UNION { [logits : Tensors(b, c), gold : [Range(b) -> Range(c)]] :
            b \in {n \in 1 .. MaxElems : n * c <= MaxElems} }

NoCall == [op |-> "none", arg |-> EmptyDict, labelled |-> FALSE, reset |-> FALSE,
           cuda_device |-> -1,
           out |-> EmptyDict, raised |-> None, calls |-> <<>>, fwd_calls |-> <<>>]

\* History of the calls: the labelled rows forward has been given since the
\* last get_metrics(reset=True), how many of them had their gold class first
\* among the largest logits, and both as get_metrics found them when it was
\* the last call.
NoneSeen == [rows |-> 0, hits |-> 0, asked_rows |-> 0, asked_hits |-> 0]

Hits(logits, label) ==
    Cardinality({b \in DOMAIN logits :
                    /\ \A c \in DOMAIN logits[b] : logits[b][c] <= logits[b][label[b]]
                    /\ \A c \in DOMAIN logits[b] : c < label[b] =>
                                                     logits[b][c] < logits[b][label[b]]})

SeenAfter(s, logits, label) ==
    [rows |-> s.rows + (IF label = NoLabel THEN 0 ELSE BatchSize(logits)),
     hits |-> s.hits + (IF label = NoLabel THEN 0 ELSE Hits(logits, label)),
     asked_rows |-> 0, asked_hits |-> 0]

\* Instance i of the data with the batch dimension added.
Single(t, i) == [b \in {0} |-> t[i]]

Init ==
    /\ params \in [vocab : Vocabularies, embedder_output_dim : {MaxDim},
                   encoder : Encoders]
    /\ batch \in Batches(get_vocab_size(params.vocab))
    /\ self = NoModel
    /\ last = NoCall
    /\ seen = NoneSeen

Construct ==
    /\ self.built = "no"
    /\ self' = SequenceClassifier_init(params)
    /\ UNCHANGED <<params, batch, last, seen>>

\* The trainer (or any caller) runs forward on the batch, with or without labels.
Forward ==
    /\ self.built = "ok"
    /\ \E label \in {NoLabel, batch.gold} :
          /\ label # NoLabel => seen.rows + BatchSize(batch.logits) <= MaxCount
          /\ \E r \in {forward(self, batch.logits, label, "cpu")} :
                /\ self' = [self EXCEPT !.accuracy = r.acc]
                /\ last' = [NoCall EXCEPT !.op = "forward",
                                          !.labelled = (label # NoLabel),
                                          !.out = r.out, !.raised = r.raised,
                                          !.calls = r.calls, !.fwd_calls = r.calls]
          /\ seen' = SeenAfter(seen, batch.logits, label)
    /\ UNCHANGED <<params, batch>>

\* A predictor runs forward_on_instance on one instance, which may carry its label.
ForwardOnInstance ==
    /\ self.built = "ok"
    /\ \E i \in DOMAIN batch.logits, labelled \in BOOLEAN, cuda_device \in {-1, 0} :
          LET logits == Single(batch.logits, i)
              label == IF labelled THEN Single(batch.gold, i) ELSE NoLabel
          IN  /\ labelled => seen.rows + 1 <= MaxCount
              /\ \E r \in {forward_on_instance(self, logits, label, cuda_device)} :
                    /\ self' = [self EXCEPT !.accuracy = r.acc]
                    /\ last' = [NoCall EXCEPT !.op = "forward_on_instance",
                                              !.labelled = labelled,
                                              !.cuda_device = cuda_device,
                                              !.out = r.out, !.raised = r.raised,
                                              !.calls = r.calls, !.fwd_calls = r.fwd_calls]
              /\ seen' = SeenAfter(seen, logits, label)
    /\ UNCHANGED <<params, batch>>

\* A caller passes decode a dictionary it got from forward (or decodes again).
Decode ==
    /\ self.built = "ok"
    /\ last.op \in {"forward", "forward_on_instance", "decode"}
    /\ last.raised = None
    /\ \E r \in {decode(self, last.out)} :
          last' = [NoCall EXCEPT !.op = "decode", !.arg = last.out,
                                 !.out = r.out, !.raised = r.raised, !.calls = r.calls]
    /\ UNCHANGED <<params, batch, self, seen>>

GetMetrics ==
    /\ self.built = "ok"
    /\ \E reset \in BOOLEAN :
       \E r \in {get_metrics(self, reset)} :
          /\ self' = [self EXCEPT !.accuracy = r.acc]
          /\ last' = [NoCall EXCEPT !.op = "get_metrics", !.reset = reset,
                                    !.out = r.out, !.raised = r.raised, !.calls = r.calls]
          /\ seen' = [rows |-> IF reset THEN 0 ELSE seen.rows,
                      hits |-> IF reset THEN 0 ELSE seen.hits,
                      asked_rows |-> seen.rows, asked_hits |-> seen.hits]
    /\ UNCHANGED <<params, batch>>

Next ==
    \/ Construct
    \/ Forward
    \/ ForwardOnInstance
    \/ Decode
    \/ GetMetrics

Spec == Init /\ [][Next]_vars

\* ----------------------------------------------------------------- claims
Positions(s, x) == {i \in 1 .. Len(s) : s[i] = x}

Mismatch == params.embedder_output_dim # params.encoder.input_dim

\* C1: a constructor call whose embedder output dimension differs from the
\* encoder input dimension ends in ConfigurationError with the initializer
\* never applied; with equal dimensions it raises nothing and applies the
\* initializer exactly once, as its last step, after the accuracy metric and
\* the loss were created.
C1_ConfigurationCheck ==
    (self.built # "no" /\ params.encoder.present) =>
        IF Mismatch
        THEN /\ self.built = "ConfigurationError"
             /\ self.initialized = 0
             /\ Positions(self.calls, "initializer") = {}
        ELSE /\ self.built = "ok"
             /\ self.initialized = 1
             /\ Cardinality(Positions(self.calls, "initializer")) = 1
             /\ {"_accuracy", "_loss"} \subseteq self.attrs
             /\ \A i \in Positions(self.calls, "initializer") :
                   /\ \E j \in Positions(self.calls, "CategoricalAccuracy") : j < i
                   /\ \E j \in Positions(self.calls, "CrossEntropyLoss") : j < i

C1_Witness == self.built = "ConfigurationError" /\ Mismatch

\* C2: the dictionary forward returns holds 'logits' and 'class_probabilities',
\* holds 'loss' exactly when a label was passed, and holds no other key.
C2_ForwardKeys ==
    last.op = "forward" =>
        DOMAIN last.out = {"logits", "class_probabilities"}
                          \cup (IF last.labelled THEN {"loss"} ELSE {})

C2_Witness ==
    /\ last.op = "forward"
    /\ last.labelled
    /\ DOMAIN last.out = {"logits", "class_probabilities", "loss"}

\* C3: what forward_on_instance returns holds no Variable, and its arrays for
\* the instance have the batch dimension removed: 'logits' and
\* 'class_probabilities' are arrays of shape (num_classes,).
C3_BatchDimensionRemoved ==
    (last.op = "forward_on_instance" /\ last.raised = None) =>
        /\ \A k \in DOMAIN last.out : last.out[k].kind # "Variable"
        /\ \A k \in {"logits", "class_probabilities"} :
              /\ last.out[k].kind = "ndarray"
              /\ last.out[k].shape = <<self.num_classes>>

\* C4: for every dictionary with batch size >= 1 that decode is given, the
\* index it looks up for 'max_label' is a valid class index, and 'max_label'
\* is the key of 'probabilities_by_class' with the largest probability.
C4_DecodeArgmax ==
    (last.op = "decode" /\ last.raised # "RuntimeError") =>
        /\ last.raised = None
        /\ "max_label" \in DOMAIN last.out
        /\ LET by_class == last.out["probabilities_by_class"].data
               max_label == last.out["max_label"].data
           IN  /\ max_label \in DOMAIN by_class
               /\ \A t \in DOMAIN by_class : by_class[t] <= by_class[max_label]

Percent(hits, rows) == IF rows = 0 THEN 0 ELSE (100 * hits) \div rows

\* C5: get_metrics returns exactly the key 'accuracy'; the accumulator holds
\* exactly the rows of the labelled forward calls since the last
\* get_metrics(reset=True): a labelled forward adds its rows once, an
\* unlabelled forward and get_metrics(reset=False) change nothing, and
\* get_metrics(reset=True) clears it after reporting.
C5_AccuracyBookkeeping ==
    self.built = "ok" =>
        /\ self.accuracy.total_count = seen.rows
        /\ self.accuracy.correct_count = seen.hits
        /\ last.op = "get_metrics" =>
              /\ DOMAIN last.out = {"accuracy"}
              /\ last.out["accuracy"].data = Percent(seen.asked_hits, seen.asked_rows)
              /\ self.accuracy.total_count = IF last.reset THEN 0 ELSE seen.asked_rows
              /\ self.accuracy.correct_count = IF last.reset THEN 0 ELSE seen.asked_hits

C5_Witness ==
    /\ last.op = "get_metrics"
    /\ last.reset
    /\ seen.asked_rows > 1
    /\ seen.asked_hits > 0
    /\ seen.asked_hits < seen.asked_rows

\* C6: every forward call (made directly or by forward_on_instance) embeds,
\* computes the mask, encodes, projects and applies softmax, in this order,
\* and then, exactly when a label is given, computes the loss and then updates
\* the accuracy; nothing is skipped, repeated or reordered.
Named(calls) == SelectSeq(calls, LAMBDA c : c # "size")

C6_ForwardOrder ==
    last.op \in {"forward", "forward_on_instance"} =>
        Named(last.fwd_calls) =
            <<"text_field_embedder", "get_text_field_mask", "encoder",
              "projection_layer", "softmax">>
            \o (IF last.labelled THEN <<"_loss", "_accuracy">> ELSE <<>>)

C6_Witness ==
    /\ last.op = "forward"
    /\ last.labelled
    /\ Len(last.fwd_calls) > 0

\* C7: forward_on_instance indexes the instance, converts it to batched model
\* input, calls forward once and then decode once, so a dictionary it returns
\* holds forward's keys and decode's keys.
C7_InstanceOrder ==
    last.op = "forward_on_instance" =>
        /\ last.calls = <<"index_fields", "as_array_dict", "arrays_to_variables",
                          "forward", "decode">>
        /\ last.raised = None =>
              {"logits", "class_probabilities", "probabilities_by_class", "max_label"}
                  \subseteq DOMAIN last.out

C7_Witness ==
    /\ last.op = "forward_on_instance"
    /\ last.raised = None
    /\ "max_label" \in DOMAIN last.out
    /\ "loss" \in DOMAIN last.out

====
